---- MODULE Spec2Model ----
(***************************************************************************)
(* The one-shot task execution engine of simple_one_shot_framework:        *)
(* ToolUseOneShot (tool_use_one_shot.py).  One engine instance, its        *)
(* asyncio.Semaphore, one batch arun(list) of n inputs and one overlapping *)
(* arun(single input) call.  Every logical request is a coroutine running  *)
(* _chat_one_shot; a step of the model is what one coroutine does between  *)
(* two suspension points of the asyncio event loop.                        *)
(*                                                                         *)
(* The pure parts are specifications of their own, each applied to every   *)
(* input of a bounded set: await_and_combine_multiple_results              *)
(* (CombineSpec), TextChunkingOneShot.chunk_paragraphs (ChunkSpec), and    *)
(* the tool chest with __functions and __call_function (RegistrySpec).     *)
(***************************************************************************)
EXTENDS Integers, Sequences, FiniteSets, TLC

VARIABLES
    prompt,       \* self.prompt: the configured system prompt, or None
    n,            \* len(input_data) of the batch arun call
    semaphore,    \* self.semaphore._value
    pc,           \* per request: where its coroutine is suspended
    permit,       \* per request: it is inside `async with self.semaphore`
    messages,     \* per request: the `messages` list (shared with opts)
    delay,        \* per request: the local `delay`
    slept,        \* per request: the argument of its latest asyncio.sleep
    backoffs,     \* per request: how often the OpenAIError handler has run
    dispatches,   \* per request: number of acreate calls
    sent,         \* per request: opts["messages"] as of the latest acreate
    pending,      \* per request: response_message of a tool-call response
    toolcalls,    \* per request: number of tool-call responses received
    caught,       \* per request: the exception its try block raised last
    invocations,  \* per request: number of capability invocations
    outcome,      \* per request: what the coroutine returned or raised
    finished,     \* batch requests in the order in which they terminated
    batch,        \* the batch arun call: pending, returned (value), raised
    results,      \* await_and_combine_multiple_results: the gathered results
    combined,     \* await_and_combine_multiple_results: what it returned
    chunk_size,   \* self.chunk_size of a TextChunkingOneShot
    chunk_args,   \* chunk_paragraphs: its arguments text and overlap
    buffers,      \* chunk_paragraphs: temp_paragraphs at each result.append
    chunks,       \* chunk_paragraphs: what it returned
    tool_chest,   \* self.tool_chest: the owners in dict order, each with its
                  \* schema-bearing methods in the order of inspect.getmembers
    schemas,      \* self.schemas: the memoized schema list, if any
    requested,    \* __call_function: its argument function_id
    resolved,     \* __call_function: the method it looked up, or its error
    builds,       \* how often __functions has built a schema list
    seen,         \* per request: its local `functions` (line 188), if any
    feed_args,    \* FeedProcessor._chat_one_shot: its arguments
    feed_pc,      \* FeedProcessor._chat_one_shot: where the call stands
    feed_delay,   \* FeedProcessor._chat_one_shot: the local `delay`
    feed_calls,   \* FeedProcessor._chat_one_shot: number of create calls
    feed_caught,  \* FeedProcessor._chat_one_shot: the exception caught last
    feed_outcome  \* FeedProcessor._chat_one_shot: what it returned or raised

engine == <<prompt, n, semaphore, pc, permit, messages, delay, slept, backoffs,
            dispatches, sent, pending, toolcalls, caught, invocations, outcome,
            finished, batch>>

combiner == <<results, combined>>

chunker == <<chunk_size, chunk_args, buffers, chunks>>

registry == <<tool_chest, schemas, requested, resolved, builds, seen>>

feed == <<feed_args, feed_pc, feed_delay, feed_calls, feed_caught, feed_outcome>>

\* what no step of the engine touches
pure == <<combiner, chunker, registry, feed>>

vars == <<engine, combiner, chunker, registry, feed>>

-----------------------------------------------------------------------------
(* Bounds of the model *)

MaxBatch == 2        \* largest batch list given to arun
MaxEvents == 2       \* transient failures and tool-call responses met by
                     \* all requests together
MaxResults == 3      \* most results handed to the aggregator
MaxTextLen == 5      \* longest text handed to chunk_paragraphs, in characters
MaxChunkSize == 2    \* largest self.chunk_size
MaxOverlap == 2      \* largest overlap
MaxOwners == 2       \* most owners put into a tool chest
MaxFeedCalls == 4    \* most create calls of one FeedProcessor._chat_one_shot

(* Configuration of the engine instance *)

concurrency_limit == 2     \* kwargs "concurrency_limit" (line 68)
max_delay == 3             \* kwargs "max_delay" (line 67)

None == "None"

Single == MaxBatch + 1          \* the request of the overlapping arun(single)
Requests == 1 .. (MaxBatch + 1)
BatchRequests == 1 .. n

Min(a, b) == IF a < b THEN a ELSE b
Max(a, b) == IF a < b THEN b ELSE a

RECURSIVE Pow2(_)
Pow2(k) == IF k = 0 THEN 1 ELSE 2 * Pow2(k - 1)

RECURSIVE SumOver(_, _)
SumOver(f, S) ==
    IF S = {} THEN 0
    ELSE LET x == CHOOSE y \in S : TRUE IN f[x] + SumOver(f, S \ {x})

-----------------------------------------------------------------------------
(* Inputs: texts are sequences of characters *)

ChatResponse(response_text, token_count) ==
    [type |-> "ChatResponse", text |-> response_text, token_count |-> token_count]

Str(chars) == [type |-> "str", value |-> chars]

isinstance_ChatResponse(x) == x.type = "ChatResponse"

\* the list handed to arun: raw texts and prior results, one distinct text each
InputItem(i) ==
    IF i % 2 = 1 THEN Str(<<"q", ToString(i)>>)
    ELSE ChatResponse(<<"q", ToString(i)>>, 1)

input_data == [i \in Requests |-> InputItem(i)]

\* arun: a ChatResponse element is replaced by its text
UserMessage(item) == IF isinstance_ChatResponse(item) THEN item.text ELSE item.value

\* the characters str.strip removes
whitespace == {" ", "\n"}

RECURSIVE lstrip(_)
lstrip(s) == IF s # <<>> /\ Head(s) \in whitespace THEN lstrip(Tail(s)) ELSE s

RECURSIVE rstrip(_)
rstrip(s) ==
    IF s # <<>> /\ s[Len(s)] \in whitespace THEN rstrip(SubSeq(s, 1, Len(s) - 1)) ELSE s

strip(s) == rstrip(lstrip(s))

-----------------------------------------------------------------------------
(* Conversations and requests *)

Message(role, name, content) == [role |-> role, name |-> name, content |-> content]

model_name == "gpt-3.5-turbo-16k"
temperature == "0.5"

\* the schema list of the tool chest: one owner "tools" with two capabilities,
\* `def count` and `async def lookup`
functions == << [name |-> "tools-count"], [name |-> "tools-lookup"] >>

\* the capabilities of the tool chest that are coroutine functions
iscoroutinefunction(function_id) == function_id = "tools-lookup"

construct_message_array(user_message, sys_prompt) ==
    << Message("system", None, sys_prompt), Message("user", None, user_message) >>

\* faulty variant: the assistant's tool-call message is not kept
AppendFunctionResult_result_only(msgs, response_message, function_response) ==
    Append(msgs, Message("function", response_message.name, function_response))

\* faulty variant: the capability's result is put before the tool-call message
AppendFunctionResult_call_last(msgs, response_message, function_response) ==
    msgs \o << Message("function", response_message.name, function_response),
               response_message >>

\* lines 202-203: the tool-call message, then the capability's result
AppendFunctionResult(msgs, response_message, function_response) ==
    msgs \o << response_message,
               Message("function", response_message.name, function_response) >>

\* faulty variant: the tool-call message is appended before the capability
\* is awaited, and stays when the handling fails
AfterFailedCall_keeps_call(msgs, response_message) == Append(msgs, response_message)

\* line 201 raises: the appends of lines 202-203 are not reached
AfterFailedCall(msgs, response_message) == msgs

opts(msgs) ==
    [model |-> model_name, temperature |-> temperature, messages |-> msgs,
     functions |-> functions]

\* no acreate call made yet; no response_message held
NoOpts == [model |-> None, temperature |-> None, messages |-> <<>>, functions |-> <<>>]
NoMessage == Message(None, None, None)

-----------------------------------------------------------------------------
(* The remote endpoint and the capabilities, as seen by the engine *)

InvalidRequestError == "InvalidRequestError"
APIError == "APIError"           \* any OpenAIError but InvalidRequestError
OtherError == "Exception"        \* anything that is not an OpenAIError
ValueError == "ValueError"

IsOpenAIError(e) == e \in {InvalidRequestError, APIError}

Raisable == {InvalidRequestError, APIError, OtherError}

Caught(e, origin) == [exc |-> e, origin |-> origin]
NoException == Caught(None, None)

\* the user text the conversation asks about
LastUserContent(msgs) ==
    LET idx == {k \in 1 .. Len(msgs) : msgs[k].role = "user"}
    IN  msgs[CHOOSE k \in idx : \A j \in idx : j <= k].content

\* plain answers of the endpoint: the user text, bare or padded with blanks
Contents(msgs) ==
    LET u == LastUserContent(msgs) IN {u, <<" ">> \o u \o <<" ">>}

completion_tokens(content) == Len(strip(content))

FunctionCallMessage == Message("assistant", "tools-lookup", "{}")

\* function_call.arguments the endpoint may produce that are not JSON
UndecodableArguments == {"{"}

\* the tool-call responses of the endpoint: an advertised name, and arguments
\* that are a JSON object or a truncated one
FunctionCallMessages ==
    { FunctionCallMessage,
      Message("assistant", "tools-count", "{}"),
      Message("assistant", "tools-lookup", "{") }

\* faulty variant: arguments that do not parse are taken as no arguments
json_loads_lenient(arguments) == [kind |-> "returned", value |-> {}]

\* json.loads of function_call.arguments: the keyword arguments, or an error
json_loads(arguments) ==
    IF arguments \in UndecodableArguments
    THEN [kind |-> "raised", exc |-> "JSONDecodeError"]
    ELSE [kind |-> "returned", value |-> {}]

FunctionResults == {"found"}

-----------------------------------------------------------------------------
(* asyncio.Semaphore *)

\* faulty variant: the last permit can be taken twice
locked_off_by_one(value) == value < 0

locked(value) == value = 0

\* Points of _chat_one_shot at which control may leave `async with`
\* lines 195-216: only a return or a raise leaves the block.
\* faulty variant: the permit is given back after every endpoint call
HoldsAfter_call_only(event) ==
    event \notin {"return", "raise", "backoff", "function_call"}

\* faulty variant: an exception leaves the block without giving the permit back
HoldsAfter_leak_on_raise(event) == event # "return"

HoldsAfter(event) == event \notin {"return", "raise"}

\* faulty variant: no handler for InvalidRequestError before the OpenAIError handler
Except_no_invalid_request_clause(e) ==
    IF IsOpenAIError(e) THEN "backoff" ELSE "raise"

\* faulty variant: every exception is re-raised
Except_all_fatal(e) == "raise"

\* the handlers of lines 207-216, in order
Except(e) ==
    IF e = InvalidRequestError THEN "raise"
    ELSE IF IsOpenAIError(e) THEN "backoff"
    ELSE "raise"

exponential_backoff(d) == Min(2 * d, max_delay)

NextDelay(d) == d * 2

-----------------------------------------------------------------------------
(* asyncio.gather *)

\* faulty variant: gather called without return_exceptions
return_exceptions_default == FALSE

return_exceptions == TRUE

Returned(value) == [kind |-> "returned", value |-> value]
Raised(e) == [kind |-> "raised", exc |-> e]
NoOutcome == [kind |-> "none"]

Terminal == {"returned", "raised"}

\* faulty variant: results collected as the tasks complete
GatherOrder_as_completed(order, nn) == order

\* position k of the result list holds the outcome of the k-th awaitable
GatherOrder(order, nn) == [k \in 1 .. nn |-> k]

gather(outs, order, nn) ==
    LET failed == {k \in 1 .. Len(order) : outs[order[k]].kind = "raised"}
    IN  IF return_exceptions \/ failed = {}
        THEN [state |-> "returned",
              value |-> [k \in 1 .. nn |-> outs[GatherOrder(order, nn)[k]]]]
        ELSE [state |-> "raised",
              exc |-> outs[order[CHOOSE k \in failed : \A j \in failed : k <= j]].exc]

\* faulty variant: the gather settles with the first request that ends
GatherReady_first_done == \E i \in BatchRequests : pc[i] \in Terminal

GatherReady ==
    \/ \A i \in BatchRequests : pc[i] \in Terminal
    \/ ~return_exceptions /\ \E i \in BatchRequests : pc[i] = "raised"

-----------------------------------------------------------------------------
(* State after construction, with the two arun calls about to be made *)

EngineInit ==
    /\ prompt \in {None, "sys"}
    /\ n \in 0 .. MaxBatch
    /\ semaphore = concurrency_limit
    /\ pc = [i \in Requests |-> IF i \in 1 .. n \/ i = Single THEN "created" ELSE "unused"]
    /\ permit = [i \in Requests |-> FALSE]
    /\ messages = [i \in Requests |-> <<>>]
    /\ delay = [i \in Requests |-> 1]
    /\ slept = [i \in Requests |-> 0]
    /\ backoffs = [i \in Requests |-> 0]
    /\ dispatches = [i \in Requests |-> 0]
    /\ sent = [i \in Requests |-> NoOpts]
    /\ pending = [i \in Requests |-> NoMessage]
    /\ toolcalls = [i \in Requests |-> 0]
    /\ caught = [i \in Requests |-> NoException]
    /\ invocations = [i \in Requests |-> 0]
    /\ outcome = [i \in Requests |-> NoOutcome]
    /\ finished = <<>>
    /\ batch = [state |-> "pending"]

-----------------------------------------------------------------------------
(* Steps of one _chat_one_shot coroutine *)

Events == SumOver(backoffs, Requests) + SumOver(toolcalls, Requests)

\* control passes `event`; the permit is given back if the block is left
Pass(i, event) ==
    /\ permit' = [permit EXCEPT ![i] = permit[i] /\ HoldsAfter(event)]
    /\ semaphore' = IF permit[i] /\ ~HoldsAfter(event) THEN semaphore + 1 ELSE semaphore

\* openai.ChatCompletion.acreate(**opts) is called and awaited
Dispatch(i, msgs) ==
    /\ pc' = [pc EXCEPT ![i] = "dispatching"]
    /\ dispatches' = [dispatches EXCEPT ![i] = @ + 1]
    /\ sent' = [sent EXCEPT ![i] = opts(msgs)]

\* the coroutine ends with `out`
Finish(i, out) ==
    /\ pc' = [pc EXCEPT ![i] = out.kind]
    /\ outcome' = [outcome EXCEPT ![i] = out]
    /\ finished' = IF i \in BatchRequests THEN Append(finished, i) ELSE finished
    /\ Pass(i, IF out.kind = "returned" THEN "return" ELSE "raise")

\* an exception `e` raised inside the try of lines 197-205 by `origin`
Handle(i, e, origin) ==
    /\ caught' = [caught EXCEPT ![i] = Caught(e, origin)]
    /\ IF Except(e) = "raise"
       THEN /\ Finish(i, Raised(e))
            /\ UNCHANGED <<delay, slept, backoffs>>
       ELSE /\ pc' = [pc EXCEPT ![i] = "sleeping"]
            /\ slept' = [slept EXCEPT ![i] = exponential_backoff(delay[i])]
            /\ backoffs' = [backoffs EXCEPT ![i] = @ + 1]
            /\ Pass(i, "backoff")
            /\ UNCHANGED <<delay, outcome, finished>>

\* lines 175-198: the first step of a coroutine, up to its first suspension,
\* when the semaphore holds `value`
FirstStep(i, value) ==
    IF prompt = None
    THEN [pc |-> "raised", outcome |-> Raised(ValueError), permit |-> FALSE,
          messages |-> <<>>, dispatches |-> 0, sent |-> NoOpts, value |-> value]
    ELSE LET msgs == construct_message_array(UserMessage(input_data[i]), prompt)
         IN  IF locked(value)
             THEN [pc |-> "acquiring", outcome |-> NoOutcome, permit |-> FALSE,
                   messages |-> msgs, dispatches |-> 0, sent |-> NoOpts,
                   value |-> value]
             ELSE [pc |-> "dispatching", outcome |-> NoOutcome, permit |-> TRUE,
                   messages |-> msgs, dispatches |-> 1, sent |-> opts(msgs),
                   value |-> value - 1]

\* the semaphore as request i of a launch first..last finds it: the event loop
\* runs the first steps of the tasks of one gather in the order of the list
RECURSIVE ValueBefore(_, _)
ValueBefore(first, i) ==
    IF i = first THEN semaphore
    ELSE FirstStep(i - 1, ValueBefore(first, i - 1)).value

RECURSIVE RaisedAtStart(_, _)
RaisedAtStart(first, last) ==
    IF last < first THEN <<>>
    ELSE IF prompt = None /\ last \in BatchRequests
         THEN Append(RaisedAtStart(first, last - 1), last)
         ELSE RaisedAtStart(first, last - 1)

Launch(first, last) ==
    /\ first <= last
    /\ \A i \in first .. last : pc[i] = "created"
    /\ LET st == [i \in first .. last |-> FirstStep(i, ValueBefore(first, i))]
           In(i) == i \in first .. last
       IN  /\ pc' = [i \in Requests |-> IF In(i) THEN st[i].pc ELSE pc[i]]
           /\ outcome' = [i \in Requests |-> IF In(i) THEN st[i].outcome ELSE outcome[i]]
           /\ permit' = [i \in Requests |-> IF In(i) THEN st[i].permit ELSE permit[i]]
           /\ messages' = [i \in Requests |-> IF In(i) THEN st[i].messages ELSE messages[i]]
           /\ dispatches' = [i \in Requests |-> IF In(i) THEN st[i].dispatches ELSE dispatches[i]]
           /\ sent' = [i \in Requests |-> IF In(i) THEN st[i].sent ELSE sent[i]]
           /\ semaphore' = st[last].value
    /\ finished' = finished \o RaisedAtStart(first, last)
    /\ UNCHANGED <<prompt, n, delay, slept, backoffs, pending, toolcalls, caught,
                   invocations, batch>>
    /\ UNCHANGED pure

\* lines 101-109: arun(list) creates one coroutine per element and gathers them
ArunList == Launch(1, n)

\* lines 111-114: an overlapping arun(single input) on the same instance
ArunSingle == Launch(Single, Single)

\* line 195: a waiting coroutine gets its permit and calls the endpoint
Acquire(i) ==
    /\ pc[i] = "acquiring"
    /\ ~locked(semaphore)
    /\ semaphore' = semaphore - 1
    /\ permit' = [permit EXCEPT ![i] = TRUE]
    /\ Dispatch(i, messages[i])
    /\ UNCHANGED <<prompt, n, messages, delay, slept, backoffs, pending,
                   toolcalls, caught, invocations, outcome, finished, batch>>
    /\ UNCHANGED pure

\* lines 204-205: a plain content response
ContentResponse(i) ==
    /\ pc[i] = "dispatching"
    /\ \E content \in Contents(sent[i].messages) :
         Finish(i, Returned(ChatResponse(strip(content), completion_tokens(content))))
    /\ UNCHANGED <<prompt, n, messages, delay, slept, backoffs, dispatches, sent,
                   pending, toolcalls, caught, invocations, batch>>
    /\ UNCHANGED pure

\* lines 199-201: a tool-call response.  json.loads is evaluated first; then
\* __call_function calls the capability and awaits what the call returned:
\* the coroutine of an `async def`, or the plain value of a `def`, which
\* cannot be awaited (TypeError)
FunctionCallResponse(i) ==
    /\ pc[i] = "dispatching"
    /\ Events < MaxEvents
    /\ \E response_message \in FunctionCallMessages :
         LET function_args == json_loads(response_message.content)
         IN  /\ pending' = [pending EXCEPT ![i] = response_message]
             /\ toolcalls' = [toolcalls EXCEPT ![i] = @ + 1]
             /\ IF function_args.kind = "raised"
                THEN /\ Handle(i, function_args.exc, "arguments")
                     /\ messages' = [messages EXCEPT
                            ![i] = AfterFailedCall(@, response_message)]
                     /\ UNCHANGED invocations
                ELSE /\ invocations' = [invocations EXCEPT ![i] = @ + 1]
                     /\ IF iscoroutinefunction(response_message.name)
                        THEN /\ pc' = [pc EXCEPT ![i] = "calling"]
                             /\ Pass(i, "function_call")
                             /\ UNCHANGED <<delay, slept, backoffs, caught,
                                            outcome, finished, messages>>
                        ELSE /\ Handle(i, "TypeError", "await")
                             /\ messages' = [messages EXCEPT
                                    ![i] = AfterFailedCall(@, response_message)]
    /\ UNCHANGED <<prompt, n, dispatches, sent, batch>>
    /\ UNCHANGED pure

\* lines 202-203, then line 198 again: the capability returned
FunctionReturns(i) ==
    /\ pc[i] = "calling"
    /\ \E function_response \in FunctionResults :
         LET msgs == AppendFunctionResult(messages[i], pending[i], function_response)
         IN  /\ messages' = [messages EXCEPT ![i] = msgs]
             /\ Dispatch(i, msgs)
    /\ pending' = [pending EXCEPT ![i] = NoMessage]
    /\ Pass(i, "redispatch")
    /\ UNCHANGED <<prompt, n, delay, slept, backoffs, toolcalls, caught,
                   invocations, outcome, finished, batch>>
    /\ UNCHANGED pure

\* line 201 raises: the capability failed
FunctionRaises(i) ==
    /\ pc[i] = "calling"
    /\ \E e \in Raisable :
         /\ Except(e) = "backoff" => Events < MaxEvents
         /\ Handle(i, e, "capability")
    /\ messages' = [messages EXCEPT ![i] = AfterFailedCall(@, pending[i])]
    /\ pending' = [pending EXCEPT ![i] = NoMessage]
    /\ UNCHANGED <<prompt, n, dispatches, sent, toolcalls, invocations, batch>>
    /\ UNCHANGED pure

\* line 198 raises: the endpoint call failed
EndpointRaises(i) ==
    /\ pc[i] = "dispatching"
    /\ \E e \in Raisable :
         /\ Except(e) = "backoff" => Events < MaxEvents
         /\ Handle(i, e, "endpoint")
    /\ UNCHANGED <<prompt, n, messages, dispatches, sent, pending, toolcalls,
                   invocations, batch>>
    /\ UNCHANGED pure

\* lines 212-213, then line 198 again: the backoff sleep is over
SleepEnds(i) ==
    /\ pc[i] = "sleeping"
    /\ delay' = [delay EXCEPT ![i] = NextDelay(@)]
    /\ Dispatch(i, messages[i])
    /\ caught' = [caught EXCEPT ![i] = NoException]
    /\ Pass(i, "retry")
    /\ UNCHANGED <<prompt, n, messages, slept, backoffs, pending, toolcalls,
                   invocations, outcome, finished, batch>>
    /\ UNCHANGED pure

\* line 109: the gather of the batch settles
GatherSettles ==
    /\ batch.state = "pending"
    /\ GatherReady
    /\ batch' = gather(outcome, finished, n)
    /\ UNCHANGED <<prompt, n, semaphore, pc, permit, messages, delay, slept,
                   backoffs, dispatches, sent, pending, toolcalls, caught,
                   invocations, outcome, finished>>
    /\ UNCHANGED pure

EngineNext ==
    \/ ArunList
    \/ ArunSingle
    \/ \E i \in Requests : Acquire(i)
    \/ \E i \in Requests : ContentResponse(i)
    \/ \E i \in Requests : FunctionCallResponse(i)
    \/ \E i \in Requests : FunctionReturns(i)
    \/ \E i \in Requests : FunctionRaises(i)
    \/ \E i \in Requests : EndpointRaises(i)
    \/ \E i \in Requests : SleepEnds(i)
    \/ GatherSettles

-----------------------------------------------------------------------------
(* await_and_combine_multiple_results *)

\* the elements gather(return_exceptions=True) can hold
ResultItems ==
    {Raised(OtherError)} \cup
    {Returned(ChatResponse(t, k)) : t \in {<<"a">>, <<"b", "c">>}, k \in 1 .. 2}

RECURSIVE SeqsUpTo(_, _)
SeqsUpTo(S, len) ==
    IF len = 0 THEN {<<>>}
    ELSE LET shorter == SeqsUpTo(S, len - 1)
         IN  shorter \cup {Append(q, x) : q \in shorter, x \in S}

\* faulty variant: the pieces are glued together without a separator
join_without_separator(sep, pieces) ==
    IF pieces = <<>> THEN <<>>
    ELSE LET RECURSIVE glue(_)
             glue(k) == IF k = 0 THEN <<>> ELSE glue(k - 1) \o pieces[k]
         IN  glue(Len(pieces))

\* str.join
join(sep, pieces) ==
    LET RECURSIVE upto(_)
        upto(k) == IF k = 1 THEN pieces[1] ELSE upto(k - 1) \o sep \o pieces[k]
    IN  IF pieces = <<>> THEN <<>> ELSE upto(Len(pieces))


isinstance_Exception(result) == result.kind = "raised"

\* lines 122-133: the loop over the gathered results, from element k on
RECURSIVE combine_from(_, _, _, _)
combine_from(rs, k, text_chunks, token_count) ==
    IF k > Len(rs)
    THEN Returned(ChatResponse(join(<<"\n">>, text_chunks), token_count))
    ELSE IF isinstance_Exception(rs[k])
         THEN combine_from(rs, k + 1, text_chunks, token_count)
         ELSE combine_from(rs, k + 1, Append(text_chunks, rs[k].value.text),
                           token_count + rs[k].value.token_count)

await_and_combine_multiple_results(rs) == combine_from(rs, 1, <<>>, 0)

-----------------------------------------------------------------------------
(* TextChunkingOneShot.chunk_paragraphs (text_chunking_one_shot.py) *)

\* the characters of the texts: two letters and the line break
Alphabet == {"a", "b", "\n"}

Texts == SeqsUpTo(Alphabet, MaxTextLen)

\* len(self.encoder.encode(p)): the encoder makes one token of each character
encode(p) == p
len(x) == Len(x)

\* sum(len(self.encoder.encode(p)) for p in temp_paragraphs)
RECURSIVE sum_tokens(_)
sum_tokens(temp_paragraphs) ==
    IF temp_paragraphs = <<>> THEN 0
    ELSE len(encode(Head(temp_paragraphs))) + sum_tokens(Tail(temp_paragraphs))

\* str.split(sep) for a separator of one character
RECURSIVE split(_, _)
split(s, sep) ==
    IF \A i \in 1 .. Len(s) : s[i] # sep THEN << s >>
    ELSE LET i == CHOOSE j \in 1 .. Len(s) :
                     s[j] = sep /\ \A h \in 1 .. (j - 1) : s[h] # sep
         IN  << SubSeq(s, 1, i - 1) >> \o split(SubSeq(s, i + 1, Len(s)), sep)

\* faulty variant: nothing of the emitted buffer is kept
slice_last_keeps_nothing(lst, k) == <<>>

\* lst[-k:]: the last k elements, and the whole list when k = 0 (-0 is 0)
slice_last(lst, k) ==
    IF k = 0 THEN lst ELSE SubSeq(lst, Max(1, Len(lst) - k + 1), Len(lst))

\* lines 50-53: the buffer that follows an emitted one, before the append
seed(temp_paragraphs, k) ==
    IF k < Len(temp_paragraphs) THEN slice_last(temp_paragraphs, k)
    ELSE temp_paragraphs

\* lines 39-56: the loop from paragraph j on; emitted holds the buffers
\* appended to result so far, each before it is joined and stripped
RECURSIVE chunk_loop(_, _, _, _, _)
chunk_loop(paragraphs, j, emitted, temp_paragraphs, k) ==
    IF j > Len(paragraphs)
    THEN IF temp_paragraphs # <<>> THEN Append(emitted, temp_paragraphs)
         ELSE emitted
    ELSE LET paragraph == paragraphs[j]
             tokens == len(encode(paragraph))
         IN  IF tokens + sum_tokens(temp_paragraphs) > chunk_size
             THEN chunk_loop(paragraphs, j + 1, Append(emitted, temp_paragraphs),
                             Append(seed(temp_paragraphs, k), paragraph), k)
             ELSE chunk_loop(paragraphs, j + 1, emitted,
                             Append(temp_paragraphs, paragraph), k)

chunk_buffers(s, k) == chunk_loop(split(s, "\n"), 1, <<>>, <<>>, k)

\* what result.append receives for one buffer
chunk_of(temp_paragraphs) == strip(join(<<"\n">>, temp_paragraphs))

chunk_paragraphs(s, k) ==
    LET emitted == chunk_buffers(s, k)
    IN  [i \in 1 .. Len(emitted) |-> chunk_of(emitted[i])]

-----------------------------------------------------------------------------
(* The tool chest: __functions and __call_function *)

Nothing == [some |-> FALSE]
Some(x) == [some |-> TRUE, value |-> x]

\* owner identifiers are the keys of a dict: any strings, '-' included
OwnerNames == { <<"a">>, <<"b">>, <<"a", "-", "b">> }

\* the schema-bearing methods of one owner, sorted by name as
\* inspect.getmembers lists them; a method defined by `def` has an
\* identifier as __name__, which is also its attribute name
MemberLists == { <<>>, << <<"a">> >>, << <<"b">> >>, << <<"a">>, <<"b">> >> }

Owner(src_name, members) == [owner |-> src_name, members |-> members]

\* line 72: the engine itself is an owner; it has no schema-bearing method
self_entry == Owner(<<"s", "e", "l", "f">>, <<>>)

RECURSIVE ChestsUpTo(_)
ChestsUpTo(size) ==
    IF size = 0 THEN {<<>>}
    ELSE LET smaller == ChestsUpTo(size - 1)
         IN  smaller \cup
             { Append(c, Owner(o, m)) :
                 c \in {d \in smaller : Len(d) = size - 1},
                 o \in OwnerNames, m \in MemberLists }

DistinctOwners(chest) ==
    \A j, k \in 1 .. Len(chest) : chest[j].owner = chest[k].owner => j = k

\* kwargs "tools", with the engine's own entry added
ToolChests ==
    { Append(c, self_entry) : c \in {d \in ChestsUpTo(MaxOwners) : DistinctOwners(d)} }

\* json_schema: the schema attached to a method carries its __name__
schema_of(method) == [name |-> method]

\* faulty variant: the schema keeps the bare name
qualified_name_bare(src_name, schema_name) == schema_name

\* line 149: f"{src_name}-{schema['name']}"
qualified_name(src_name, schema_name) == src_name \o <<"-">> \o schema_name

\* lines 145-150: the schemas of one owner
schemas_of_owner(entry) ==
    [k \in 1 .. Len(entry.members) |->
        [schema_of(entry.members[k]) EXCEPT
            !.name = qualified_name(entry.owner, @)]]

\* lines 143-150: the loop over the tool chest
RECURSIVE schemas_of(_)
schemas_of(chest) ==
    IF chest = <<>> THEN <<>>
    ELSE schemas_of_owner(Head(chest)) \o schemas_of(Tail(chest))

\* str.split(sep, maxsplit) for a separator of one character
RECURSIVE split_max(_, _, _)
split_max(s, sep, maxsplit) ==
    IF maxsplit = 0 \/ \A i \in 1 .. Len(s) : s[i] # sep THEN << s >>
    ELSE LET i == CHOOSE j \in 1 .. Len(s) :
                     s[j] = sep /\ \A h \in 1 .. (j - 1) : s[h] # sep
         IN  << SubSeq(s, 1, i - 1) >>
                 \o split_max(SubSeq(s, i + 1, Len(s)), sep, maxsplit - 1)

\* lines 155-157: the lookup made by __call_function, up to the call itself
call_function(function_id) ==
    LET parts == split_max(function_id, "-", 2)
    IN  IF Len(parts) # 2 THEN Raised(ValueError)
        ELSE LET toolbelt == parts[1]
                 function_name == parts[2]
                 held == {k \in 1 .. Len(tool_chest) : tool_chest[k].owner = toolbelt}
             IN  IF held = {} THEN Raised("KeyError")
                 ELSE LET src_obj == tool_chest[CHOOSE k \in held : TRUE]
                      IN  IF \A k \in 1 .. Len(src_obj.members) :
                                 src_obj.members[k] # function_name
                          THEN Raised("AttributeError")
                          ELSE Returned([toolbelt |-> toolbelt,
                                         function_name |-> function_name])

-----------------------------------------------------------------------------
(* FeedProcessor._chat_one_shot (rss_importer.py), the synchronous dispatcher *)

\* the handlers of lines 53-59, in order: there is none for
\* InvalidRequestError, which is an OpenAIError
feed_except(e) == IF IsOpenAIError(e) THEN "backoff" ELSE "raise"

\* line 52: the text and the token count the call returns
feed_result(content) ==
    [text |-> strip(content), completion_tokens |-> completion_tokens(content)]

-----------------------------------------------------------------------------
(* Specifications *)

EngineIdle ==
    /\ prompt = None
    /\ n = 0
    /\ semaphore = concurrency_limit
    /\ pc = [i \in Requests |-> "unused"]
    /\ permit = [i \in Requests |-> FALSE]
    /\ messages = [i \in Requests |-> <<>>]
    /\ delay = [i \in Requests |-> 1]
    /\ slept = [i \in Requests |-> 0]
    /\ backoffs = [i \in Requests |-> 0]
    /\ dispatches = [i \in Requests |-> 0]
    /\ sent = [i \in Requests |-> NoOpts]
    /\ pending = [i \in Requests |-> NoMessage]
    /\ toolcalls = [i \in Requests |-> 0]
    /\ caught = [i \in Requests |-> NoException]
    /\ invocations = [i \in Requests |-> 0]
    /\ outcome = [i \in Requests |-> NoOutcome]
    /\ finished = <<>>
    /\ batch = [state |-> "pending"]

CombinerIdle == results = <<>> /\ combined = NoOutcome

ChunkerIdle ==
    /\ chunk_size = 2000
    /\ chunk_args = None
    /\ buffers = <<>>
    /\ chunks = NoOutcome

RegistryIdle ==
    /\ tool_chest = << self_entry >>
    /\ schemas = Nothing
    /\ requested = None
    /\ resolved = NoOutcome
    /\ builds = 0
    /\ seen = [i \in Requests |-> Nothing]

FeedIdle ==
    /\ feed_args = None
    /\ feed_pc = "unused"
    /\ feed_delay = 1
    /\ feed_calls = 0
    /\ feed_caught = None
    /\ feed_outcome = NoOutcome

\* the engine: one instance, one batch arun and one overlapping single arun
Init == EngineInit /\ CombinerIdle /\ ChunkerIdle /\ RegistryIdle /\ FeedIdle

Next == EngineNext

Spec == Init /\ [][Next]_vars

\* the aggregator applied to every list of up to MaxResults results
CombineInit ==
    /\ EngineIdle
    /\ ChunkerIdle
    /\ RegistryIdle
    /\ FeedIdle
    /\ results \in SeqsUpTo(ResultItems, MaxResults)
    /\ combined = NoOutcome

Combine ==
    /\ combined = NoOutcome
    /\ combined' = await_and_combine_multiple_results(results)
    /\ UNCHANGED <<engine, results, chunker, registry, feed>>

CombineSpec == CombineInit /\ [][Combine]_vars

\* chunk_paragraphs applied to every text of up to MaxTextLen characters
ChunkInit ==
    /\ EngineIdle
    /\ CombinerIdle
    /\ RegistryIdle
    /\ FeedIdle
    /\ chunk_size \in 1 .. MaxChunkSize
    /\ chunk_args \in [text : Texts, overlap : 0 .. MaxOverlap]
    /\ buffers = <<>>
    /\ chunks = NoOutcome

ChunkParagraphs ==
    /\ chunks = NoOutcome
    /\ buffers' = chunk_buffers(chunk_args.text, chunk_args.overlap)
    /\ chunks' = Returned(chunk_paragraphs(chunk_args.text, chunk_args.overlap))
    /\ UNCHANGED <<engine, combiner, chunk_size, chunk_args, registry, feed>>

ChunkSpec == ChunkInit /\ [][ChunkParagraphs]_vars

\* an engine built with every tool chest of up to MaxOwners owners
RegistryInit ==
    /\ EngineIdle
    /\ CombinerIdle
    /\ ChunkerIdle
    /\ FeedIdle
    /\ tool_chest \in ToolChests
    /\ schemas = Nothing
    /\ requested = None
    /\ resolved = NoOutcome
    /\ builds = 0
    /\ seen = [i \in Requests |-> Nothing]

\* faulty variant: an empty list is not taken as computed
memoized_if_not_empty(memo) == memo.some /\ memo.value # <<>>

\* line 141: self.schemas is not None
memoized(memo) == memo.some

\* lines 135-152 and line 188: request i calls __functions.  The method is a
\* plain `def` without await, so the event loop runs no other coroutine
\* between its first and its last line
Functions(i) ==
    /\ seen[i] = Nothing
    /\ IF memoized(schemas)
       THEN UNCHANGED <<schemas, builds>>
       ELSE /\ schemas' = Some(schemas_of(tool_chest))
            /\ builds' = builds + 1
    /\ seen' = [seen EXCEPT ![i] = Some(schemas'.value)]
    /\ UNCHANGED <<engine, combiner, chunker, feed, tool_chest, requested, resolved>>

\* lines 154-157: __call_function for a name of the advertised list
CallFunction ==
    /\ schemas.some
    /\ resolved = NoOutcome
    /\ \E k \in 1 .. Len(schemas.value) :
         /\ requested' = schemas.value[k].name
         /\ resolved' = call_function(schemas.value[k].name)
    /\ UNCHANGED <<engine, combiner, chunker, feed, tool_chest, schemas, builds, seen>>

RegistryNext ==
    \/ \E i \in Requests : Functions(i)
    \/ CallFunction

RegistrySpec == RegistryInit /\ [][RegistryNext]_vars

\* one call of FeedProcessor._chat_one_shot, as made for a summary (line 131)
\* or for the entities of a chunk (line 199)
FeedInit ==
    /\ EngineIdle
    /\ CombinerIdle
    /\ ChunkerIdle
    /\ RegistryIdle
    /\ feed_args \in [user_content : {<<"q">>, <<"r">>},
                       model_name : {model_name, "gpt-4-0613"},
                       max_tokens : 0 .. 1]
    /\ feed_pc = "created"
    /\ feed_delay = 1
    /\ feed_calls = 0
    /\ feed_caught = None
    /\ feed_outcome = NoOutcome

\* lines 38-49: the first openai.ChatCompletion.create call
FeedCalls ==
    /\ feed_pc = "created"
    /\ feed_pc' = "calling"
    /\ feed_calls' = 1
    /\ UNCHANGED <<feed_args, feed_delay, feed_caught, feed_outcome>>
    /\ UNCHANGED <<engine, combiner, chunker, registry>>

\* lines 51-52: the call returned a response
FeedReturns ==
    /\ feed_pc = "calling"
    /\ \E content \in {feed_args.user_content,
                        <<" ">> \o feed_args.user_content \o <<" ">>} :
         feed_outcome' = Returned(feed_result(content))
    /\ feed_pc' = "returned"
    /\ UNCHANGED <<feed_args, feed_delay, feed_calls, feed_caught>>
    /\ UNCHANGED <<engine, combiner, chunker, registry>>

\* lines 53-59: the call raised; a handled error leads to the next call of
\* the loop at once (the asyncio.sleep of line 35 is not awaited)
FeedRaises ==
    /\ feed_pc = "calling"
    /\ \E e \in Raisable :
         /\ feed_caught' = e
         /\ IF feed_except(e) = "backoff"
            THEN /\ feed_calls < MaxFeedCalls
                 /\ feed_delay' = NextDelay(feed_delay)
                 /\ feed_calls' = feed_calls + 1
                 /\ UNCHANGED <<feed_pc, feed_outcome>>
            ELSE /\ feed_pc' = "raised"
                 /\ feed_outcome' = Raised(e)
                 /\ UNCHANGED <<feed_delay, feed_calls>>
    /\ UNCHANGED feed_args
    /\ UNCHANGED <<engine, combiner, chunker, registry>>

FeedNext == FeedCalls \/ FeedReturns \/ FeedRaises

FeedSpec == FeedInit /\ [][FeedNext]_vars

\* an engine built with one permit fewer than concurrency_limit, so that a
\* batch of MaxBatch inputs does not fit, and one batch arun
LiveLimit == concurrency_limit - 1

LiveInit ==
    /\ prompt \in {None, "sys"}
    /\ n \in 0 .. MaxBatch
    /\ semaphore = LiveLimit
    /\ pc = [i \in Requests |-> IF i \in 1 .. n THEN "created" ELSE "unused"]
    /\ permit = [i \in Requests |-> FALSE]
    /\ messages = [i \in Requests |-> <<>>]
    /\ delay = [i \in Requests |-> 1]
    /\ slept = [i \in Requests |-> 0]
    /\ backoffs = [i \in Requests |-> 0]
    /\ dispatches = [i \in Requests |-> 0]
    /\ sent = [i \in Requests |-> NoOpts]
    /\ pending = [i \in Requests |-> NoMessage]
    /\ toolcalls = [i \in Requests |-> 0]
    /\ caught = [i \in Requests |-> NoException]
    /\ invocations = [i \in Requests |-> 0]
    /\ outcome = [i \in Requests |-> NoOutcome]
    /\ finished = <<>>
    /\ batch = [state |-> "pending"]
    /\ CombinerIdle
    /\ ChunkerIdle
    /\ RegistryIdle
    /\ FeedIdle

LiveNext ==
    \/ ArunList
    \/ \E i \in Requests : Acquire(i)
    \/ \E i \in Requests : ContentResponse(i)
    \/ \E i \in Requests : FunctionCallResponse(i)
    \/ \E i \in Requests : FunctionReturns(i)
    \/ \E i \in Requests : FunctionRaises(i)
    \/ \E i \in Requests : EndpointRaises(i)
    \/ \E i \in Requests : SleepEnds(i)
    \/ GatherSettles

\* the endpoint answers request i: a response or an error
EndpointAnswers(i) ==
    ContentResponse(i) \/ FunctionCallResponse(i) \/ EndpointRaises(i)

\* the event loop runs every coroutine that can run: the call of arun is
\* made, a free permit is handed to a waiting request, a sleep ends, the
\* gather returns once its tasks are done; and every endpoint call is
\* answered.  Nothing is assumed of the capabilities.
Fairness ==
    /\ WF_vars(ArunList)
    /\ WF_vars(GatherSettles)
    /\ \A i \in Requests :
         /\ WF_vars(Acquire(i))
         /\ WF_vars(SleepEnds(i))
         /\ WF_vars(EndpointAnswers(i))

LiveSpec == LiveInit /\ [][LiveNext]_vars /\ Fairness

-----------------------------------------------------------------------------
(* Properties *)

InFlight == {i \in Requests : pc[i] = "dispatching"}
InsideBlock == {i \in Requests : pc[i] \in {"dispatching", "calling", "sleeping"}}
AllSettled == \A i \in Requests : pc[i] \in Terminal \cup {"unused"}

\* C1: at any moment the number of endpoint calls in flight on one engine
\* instance, over the batch and the overlapping single call together, is at
\* most concurrency_limit.
C1_InFlightBounded == Cardinality(InFlight) <= concurrency_limit

\* as many calls in flight as there are permits, and one more request waiting
C1_Witness ==
    /\ Cardinality(InFlight) = concurrency_limit
    /\ \E i \in Requests : pc[i] = "acquiring"

\* C2: when the batch arun returns, the result list has one entry per input
\* and entry k is the outcome of the request started for input k (for a plain
\* answer: the answer to input k's text), whatever the completion order.
C2_OrderPreserved ==
    batch.state = "returned" =>
        /\ Len(batch.value) = n
        /\ \A k \in 1 .. n :
             /\ batch.value[k] = outcome[k]
             /\ batch.value[k].kind = "returned" =>
                    batch.value[k].value.text = UserMessage(input_data[k])

\* a batch that returned after its requests completed out of input order, one
\* of them after a retry
C2_Witness ==
    /\ batch.state = "returned"
    /\ n >= 2
    /\ finished[1] # 1
    /\ \E i \in BatchRequests : backoffs[i] > 0 /\ pc[i] = "returned"

\* C3: the batch arun never raises and settles only when every element has
\* its own outcome; a failed element is an exception entry at its own index;
\* the step in which a running request fails fatally changes no other request.
C3_FailureIsolation ==
    /\ [](batch.state # "raised")
    /\ [](batch.state = "returned" =>
            \A i \in BatchRequests :
                /\ pc[i] \in Terminal
                /\ pc[i] = "raised" => batch.value[i] = Raised(outcome[i].exc))
    /\ [][\A i \in Requests :
            (pc[i] \in {"dispatching", "calling"} /\ pc'[i] = "raised") =>
                \A j \in Requests \ {i} :
                    /\ pc'[j] = pc[j]
                    /\ outcome'[j] = outcome[j]
                    /\ messages'[j] = messages[j]]_vars

\* a batch that returned with a failed element that failed first and a sibling
\* that completed after it
C3_Witness ==
    /\ batch.state = "returned"
    /\ n >= 2
    /\ prompt # None
    /\ pc[finished[1]] = "raised"
    /\ pc[finished[2]] = "returned"

\* C4 as stated: a request holds a permit exactly while its endpoint call is
\* in flight, so none while it sleeps for backoff or awaits a capability.
C4_PermitOnlyDuringCall ==
    \A i \in Requests : permit[i] <=> pc[i] = "dispatching"

\* C4 amended: the permit is taken once, before the first endpoint call, and
\* kept until the request returns or raises: a request that sleeps for backoff
\* or awaits a capability still holds it, and each such request accounts for
\* one permit missing from the semaphore.
C4_PermitHeldUntilExit ==
    /\ \A i \in Requests : permit[i] <=> i \in InsideBlock
    /\ concurrency_limit - semaphore >=
           Cardinality({i \in Requests : pc[i] \in {"calling", "sleeping"}})

\* all permits held by a sleeping request and one awaiting a capability while
\* another request waits for a permit
C4_Witness ==
    /\ \E i \in Requests : pc[i] = "sleeping" /\ permit[i]
    /\ \E i \in Requests : pc[i] = "calling" /\ permit[i]
    /\ \E i \in Requests : pc[i] = "acquiring"
    /\ semaphore = 0

\* C5: the permits missing from the semaphore are exactly those of the
\* requests inside the dispatch section, and once every request has
\* terminated all concurrency_limit permits are available.
C5_NoPermitLeak ==
    /\ concurrency_limit - semaphore = Cardinality(InsideBlock)
    /\ AllSettled => semaphore = concurrency_limit

\* every request has terminated, over the exit paths: a final answer, an
\* invalid request, an unexpected error and a capability error
C5_Witness ==
    /\ AllSettled
    /\ \E i \in Requests : pc[i] = "returned"
    /\ \E i \in Requests :
         outcome[i] = Raised(InvalidRequestError) /\ caught[i].origin = "endpoint"
    /\ \E i \in Requests :
         outcome[i] = Raised(OtherError) /\ caught[i].origin = "capability"

\* C6 as stated: the wait after the i-th transient failure is
\* min(2^(i-1), max_delay), and the delay state never exceeds max_delay.
C6_BackoffSchedule ==
    \A i \in Requests :
        /\ pc[i] = "sleeping" => slept[i] = Min(Pow2(backoffs[i] - 1), max_delay)
        /\ delay[i] <= max_delay

\* C7: a transient error of the endpoint call never ends the request: the
\* request sleeps and its next step is a new endpoint call carrying the request
\* of the failed call; a request that returned holds the answer to its input.
C7_TransientRetried ==
    /\ [](\A i \in Requests :
            caught[i] = Caught(APIError, "endpoint") => pc[i] = "sleeping")
    /\ [][\A i \in Requests :
            (caught[i] = Caught(APIError, "endpoint") /\ pc'[i] # pc[i]) =>
                /\ pc'[i] = "dispatching"
                /\ dispatches'[i] = dispatches[i] + 1
                /\ sent'[i] = sent[i]]_vars
    /\ [](\A i \in Requests :
            pc[i] = "returned" =>
                outcome[i].value.text = UserMessage(input_data[i]))

\* a request that returned its answer at the third attempt, after two
\* transient errors of the endpoint
C7_Witness ==
    \E i \in Requests :
        /\ pc[i] = "returned"
        /\ backoffs[i] = 2
        /\ toolcalls[i] = 0
        /\ dispatches[i] = 3

\* C8: an InvalidRequestError of the endpoint call ends the request at once
\* with that error: no sleep, no change of the delay, no further endpoint call,
\* and a request that has raised stays as it is.
C8_InvalidRequestFatal ==
    /\ [][\A i \in Requests :
            (caught'[i] = Caught(InvalidRequestError, "endpoint")
                /\ caught[i] # caught'[i]) =>
                /\ pc'[i] = "raised"
                /\ outcome'[i] = Raised(InvalidRequestError)
                /\ backoffs'[i] = backoffs[i]
                /\ slept'[i] = slept[i]
                /\ delay'[i] = delay[i]
                /\ dispatches'[i] = dispatches[i]]_vars
    /\ [][\A i \in Requests :
            pc[i] = "raised" =>
                /\ pc'[i] = "raised"
                /\ dispatches'[i] = dispatches[i]
                /\ backoffs'[i] = backoffs[i]]_vars

\* a request ended by an invalid-request error of the endpoint after it had
\* retried a transient error
C8_Witness ==
    \E i \in Requests :
        /\ outcome[i] = Raised(InvalidRequestError)
        /\ caught[i] = Caught(InvalidRequestError, "endpoint")
        /\ backoffs[i] = 1
        /\ dispatches[i] = 2

\* C9 as stated: whatever a capability raises ends the request with that
\* error; no sleep, no further endpoint call, no second invocation.
C9_CapabilityErrorFatal ==
    \A i \in Requests :
        caught[i].origin = "capability" =>
            /\ pc[i] = "raised"
            /\ outcome[i] = Raised(caught[i].exc)

\* C10: a request that got one tool-call response and then a plain answer,
\* with no failure, invoked one capability, called the endpoint twice, and
\* returned one ChatResponse; its second call carried the original
\* conversation, then the tool-call message, then the function message with
\* the capability's result.
C10_OneToolRoundTrip ==
    \A i \in Requests :
        (pc[i] = "returned" /\ toolcalls[i] = 1 /\ backoffs[i] = 0) =>
            /\ invocations[i] = 1
            /\ dispatches[i] = 2
            /\ outcome[i].kind = "returned"
            /\ outcome[i].value.type = "ChatResponse"
            /\ \E r \in FunctionResults :
                 sent[i].messages =
                     construct_message_array(UserMessage(input_data[i]), prompt)
                     \o << FunctionCallMessage,
                           Message("function", FunctionCallMessage.name, r) >>

\* a request that returned after exactly one tool round trip
C10_Witness ==
    \E i \in Requests :
        pc[i] = "returned" /\ toolcalls[i] = 1 /\ backoffs[i] = 0

-----------------------------------------------------------------------------
(* Properties of the aggregator *)

Successful(rs) == SelectSeq(rs, LAMBDA r : r.kind = "returned")

\* where the text of the k-th successful result starts in the combined text
OffsetOf(ok, k) ==
    SumOver([j \in 1 .. Len(ok) |-> Len(ok[j].value.text) + 1], 1 .. (k - 1))

\* C11: await_and_combine_multiple_results always returns one ChatResponse and
\* never raises because of a failed item: its text holds the texts of the
\* successful results in input order, a newline between neighbours and
\* nothing else; its token count is the sum of their token counts; when no
\* item succeeded the text is empty and the count is zero.
C11_CombineSkipsFailures ==
    combined # NoOutcome =>
        LET ok == Successful(results)
            text == combined.value.text
        IN  /\ combined.kind = "returned"
            /\ combined.value.type = "ChatResponse"
            /\ combined.value.token_count =
                   SumOver([j \in 1 .. Len(ok) |-> ok[j].value.token_count],
                           1 .. Len(ok))
            /\ Len(text) = IF ok = <<>> THEN 0 ELSE OffsetOf(ok, Len(ok) + 1) - 1
            /\ \A k \in 1 .. Len(ok) :
                   LET from == OffsetOf(ok, k)
                       size == Len(ok[k].value.text)
                   IN  /\ SubSeq(text, from + 1, from + size) = ok[k].value.text
                       /\ k < Len(ok) => text[from + size + 1] = "\n"
            /\ ok = <<>> => text = <<>> /\ combined.value.token_count = 0

\* three results, the second failed: chunk1.text + newline + chunk3.text
C11_Witness ==
    /\ Len(results) = 3
    /\ results[1].kind = "returned"
    /\ results[2].kind = "raised"
    /\ results[3].kind = "returned"
    /\ combined.kind = "returned"
    /\ combined.value.text =
           results[1].value.text \o <<"\n">> \o results[3].value.text
    /\ combined.value.token_count =
           results[1].value.token_count + results[3].value.token_count

-----------------------------------------------------------------------------
(* Properties of chunk_paragraphs *)

Chunked == chunks.kind = "returned"

\* the paragraphs of a returned chunk
ParagraphsOf(chunk) == split(chunk, "\n")

OverLimit(p) == len(encode(p)) > chunk_size

RECURSIVE Flatten(_)
Flatten(lists) == IF lists = <<>> THEN <<>> ELSE Head(lists) \o Flatten(Tail(lists))

LastK(lst, k) == SubSeq(lst, Max(1, Len(lst) - k + 1), Len(lst))
IsPrefix(p, lst) == Len(p) <= Len(lst) /\ SubSeq(lst, 1, Len(p)) = p

\* C12: for every text, chunk_size > 0 and overlap >= 0, overlap = 0
\* included, a returned chunk holding no paragraph whose own token count
\* exceeds chunk_size has at most chunk_size tokens over its paragraphs.
C12_ChunkWithinLimit ==
    Chunked =>
        \A i \in 1 .. Len(chunks.value) :
            LET ps == ParagraphsOf(chunks.value[i])
            IN  (\A j \in 1 .. Len(ps) : ~OverLimit(ps[j]))
                    => sum_tokens(ps) <= chunk_size

\* C13: the paragraph lists of the returned chunks, each after the first
\* without the head paragraphs the overlap repeats, concatenated in order
\* are the paragraph sequence of the text.
C13_Reconstruction ==
    Chunked =>
        LET ps == [i \in 1 .. Len(chunks.value) |-> ParagraphsOf(chunks.value[i])]
            fresh(i) ==
                IF i = 1 THEN ps[i]
                ELSE SubSeq(ps[i], Min(chunk_args.overlap, Len(ps[i - 1])) + 1,
                            Len(ps[i]))
        IN  Flatten([i \in 1 .. Len(ps) |-> fresh(i)]) = split(chunk_args.text, "\n")

\* C14 as stated, on the returned chunks: with overlap = k > 0 the last k
\* paragraphs of a chunk emitted because of the limit (all of them when it
\* has fewer) are the first paragraphs of the next chunk, in the same order.
C14_OverlapOfReturnedChunks ==
    Chunked /\ chunk_args.overlap > 0 =>
        \A i \in 1 .. (Len(chunks.value) - 1) :
            IsPrefix(LastK(ParagraphsOf(chunks.value[i]), chunk_args.overlap),
                     ParagraphsOf(chunks.value[i + 1]))

\* C14, amended: with overlap = k > 0 the last k paragraphs of a buffer
\* emitted because of the limit (all of them when it has fewer) are the first
\* paragraphs of the next emitted buffer, in the same order; each returned
\* chunk is its buffer joined by newlines and stripped.
C14_OverlapOfBuffers ==
    Chunked /\ chunk_args.overlap > 0 =>
        /\ Len(chunks.value) = Len(buffers)
        /\ \A i \in 1 .. Len(buffers) : chunks.value[i] = chunk_of(buffers[i])
        /\ \A i \in 1 .. (Len(buffers) - 1) :
               /\ IsPrefix(LastK(buffers[i], chunk_args.overlap), buffers[i + 1])
               /\ Len(buffers[i + 1]) >
                      Min(chunk_args.overlap, Len(buffers[i]))

\* a buffer longer than the overlap was emitted because of the limit
C14_Witness ==
    /\ Chunked
    /\ chunk_args.overlap = 1
    /\ Len(buffers) = 2
    /\ buffers[1] = << <<"a">>, <<"b">> >>
    /\ buffers[2] = << <<"b">>, <<"a">> >>

\* C15: a paragraph whose own token count exceeds the limit is emitted whole
\* as a chunk of its own, wherever it stands and for every overlap, and no
\* empty chunk is produced because of it.
C15_OverLimitParagraphAlone ==
    LET paragraphs == split(chunk_args.text, "\n")
    IN  Chunked /\ (\E j \in 1 .. Len(paragraphs) : OverLimit(paragraphs[j])) =>
            /\ \A j \in 1 .. Len(paragraphs) :
                   OverLimit(paragraphs[j]) =>
                       \E i \in 1 .. Len(buffers) : buffers[i] = << paragraphs[j] >>
            /\ \A i \in 1 .. Len(buffers) : buffers[i] # <<>>

-----------------------------------------------------------------------------
(* Properties of the conversation *)

SystemMessages(msgs) == {k \in 1 .. Len(msgs) : msgs[k].role = "system"}

\* C16: with a system prompt configured, the conversation sent at every
\* dispatch of a request (first call, retry, redispatch after a tool call)
\* begins with the one system message it holds and ends with a user message
\* or a function-role message, never with the assistant's tool-call message.
C16_ConversationShape ==
    \A i \in Requests :
        dispatches[i] > 0 =>
            LET msgs == sent[i].messages
            IN  /\ prompt # None
                /\ Len(msgs) >= 2
                /\ SystemMessages(msgs) = {1}
                /\ msgs[1].content = prompt
                /\ msgs[Len(msgs)].role \in {"user", "function"}
                /\ msgs = messages[i]

\* a request redispatched after a tool call and then again after a backoff
C16_Witness ==
    \E i \in Requests :
        /\ pc[i] = "dispatching"
        /\ dispatches[i] = 3
        /\ toolcalls[i] = 1
        /\ backoffs[i] = 1
        /\ Len(sent[i].messages) = 4
        /\ sent[i].messages[4].role = "function"
        /\ sent[i].messages[3].role = "assistant"

-----------------------------------------------------------------------------
(* Properties of the tool chest *)

\* the (owner, bare name) pairs of a tool chest
Capabilities(chest) ==
    UNION { { <<chest[j].owner, chest[j].members[k]>> :
                k \in 1 .. Len(chest[j].members) } : j \in 1 .. Len(chest) }

\* C17: the qualified names of the schema list built from a tool chest are
\* pairwise distinct, one for each capability of each owner, also when two
\* owners expose a capability with the same bare name.
C17_QualifiedNamesDistinct ==
    schemas.some =>
        /\ \A j, k \in 1 .. Len(schemas.value) :
               schemas.value[j].name = schemas.value[k].name => j = k
        /\ Len(schemas.value) = Cardinality(Capabilities(tool_chest))

\* two owners expose the same bare name, and both are in the list
C17_Witness ==
    /\ schemas.some
    /\ \E j, k \in 1 .. Len(tool_chest) :
         /\ j # k
         /\ \E m \in 1 .. Len(tool_chest[j].members),
               h \in 1 .. Len(tool_chest[k].members) :
                tool_chest[j].members[m] = tool_chest[k].members[h]
    /\ Len(schemas.value) >= 3

\* C18: invoking a capability parses the advertised qualified name back
\* into the owner and the bare name it was built from; no name that cannot
\* be parsed back is ever advertised, a tool chest with the separator inside
\* an owner identifier or a bare name being rejected.
C18_ParsedBackOrRejected ==
    /\ resolved # NoOutcome =>
           /\ resolved.kind = "returned"
           /\ qualified_name(resolved.value.toolbelt, resolved.value.function_name)
                  = requested
           /\ <<resolved.value.toolbelt, resolved.value.function_name>>
                  \in Capabilities(tool_chest)
    /\ schemas.some =>
           \A k \in 1 .. Len(schemas.value) :
               call_function(schemas.value[k].name).kind = "returned"

-----------------------------------------------------------------------------
(* Properties of the handling of a tool-call response *)

\* request i receives a tool-call response in this step
ToolCallArrives(i) == toolcalls'[i] = toolcalls[i] + 1

\* C19: a tool-call response naming a synchronous capability is handled like
\* one naming an asynchronous capability: the capability is invoked once
\* and the request goes on to append its result and redispatch; it does not
\* fail because the capability is synchronous.
C19_SyncCapabilityHandled ==
    [][\A i \in Requests :
         (/\ ToolCallArrives(i)
          /\ ~iscoroutinefunction(pending'[i].name)
          /\ pending'[i].content \notin UndecodableArguments)
         => /\ invocations'[i] = invocations[i] + 1
            /\ pc'[i] \notin Terminal
            /\ outcome'[i] = NoOutcome]_vars

\* C20: when the arguments of a tool-call response are not decodable JSON
\* the request fails at once with the decoding error: the capability is not
\* invoked, nothing is appended to the conversation, there is no backoff
\* and no further endpoint call, and the permit is given back.
C20_UndecodableArgumentsFatal ==
    [][\A i \in Requests :
         (ToolCallArrives(i) /\ pending'[i].content \in UndecodableArguments)
         => /\ pc'[i] = "raised"
            /\ outcome'[i] = Raised("JSONDecodeError")
            /\ invocations' = invocations
            /\ messages' = messages
            /\ sent' = sent
            /\ dispatches' = dispatches
            /\ backoffs' = backoffs
            /\ slept' = slept
            /\ delay' = delay
            /\ permit[i] /\ ~permit'[i]
            /\ semaphore' = semaphore + 1]_vars

\* a request ended by undecodable arguments after a first, successful tool
\* round trip, while another request waits for a permit
C20_Witness ==
    \E i \in Requests :
        /\ pc[i] = "raised"
        /\ caught[i] = Caught("JSONDecodeError", "arguments")
        /\ outcome[i] = Raised("JSONDecodeError")
        /\ pending[i].content \in UndecodableArguments
        /\ toolcalls[i] = 2
        /\ invocations[i] = 1
        /\ Len(messages[i]) = 4
        /\ ~permit[i]

-----------------------------------------------------------------------------
(* Properties of the seed of a buffer *)

\* the paragraphs of buffer i that the buffer before it did not hold
FreshOf(i) ==
    IF i = 1 THEN buffers[i]
    ELSE SubSeq(buffers[i], Min(chunk_args.overlap, Len(buffers[i - 1])) + 1,
                Len(buffers[i]))

\* C22: when the next paragraph would exceed the limit the buffer is emitted
\* and the next buffer starts with exactly the last `overlap` paragraphs of
\* the emitted one, followed by the next paragraph; with overlap = 0 it
\* starts with the next paragraph, so no paragraph is in two chunks.
C22_SeedIsLastOverlap ==
    Chunked =>
        /\ \A i \in 1 .. (Len(buffers) - 1) :
               LET kept == Min(chunk_args.overlap, Len(buffers[i]))
               IN  /\ Len(buffers[i + 1]) > kept
                   /\ SubSeq(buffers[i + 1], 1, kept)
                          = LastK(buffers[i], chunk_args.overlap)
        /\ Flatten([i \in 1 .. Len(buffers) |-> FreshOf(i)])
               = split(chunk_args.text, "\n")

-----------------------------------------------------------------------------
(* Properties of the memoized schema list *)

\* C21: the schema list is computed once per engine instance, also when
\* several requests make their first use one after the other in any order:
\* every call returns the one complete list, which never changes once it
\* is set, and every request holds that list.
C21_SchemasComputedOnce ==
    /\ [](/\ builds <= 1
          /\ schemas.some <=> builds = 1
          /\ schemas.some => schemas.value = schemas_of(tool_chest)
          /\ \A i \in Requests : seen[i].some =>
                 schemas.some /\ seen[i].value = schemas.value)
    /\ [][/\ schemas.some => schemas' = schemas
          /\ \A i \in Requests : seen[i].some => seen'[i] = seen[i]]_vars

\* every request has made its first use, of a list of several capabilities
C21_Witness ==
    /\ \A i \in Requests : seen[i].some
    /\ builds = 1
    /\ Len(schemas.value) >= 3
    /\ resolved # NoOutcome

-----------------------------------------------------------------------------
(* Properties of the synchronous dispatcher *)

\* C23: in FeedProcessor._chat_one_shot an invalid-request error of the
\* endpoint ends the call with that error and is not retried; only
\* transient provider errors lead to another call.
C23_FeedInvalidRequestFatal ==
    /\ feed_caught = InvalidRequestError =>
           feed_pc = "raised" /\ feed_outcome = Raised(InvalidRequestError)
    /\ feed_calls > 1 /\ feed_pc = "calling" => feed_caught = APIError

-----------------------------------------------------------------------------
(* Properties of the conversation around a tool call *)

\* every tool-call message is followed at once by the function-role message
\* of the same capability, and every function-role message follows one
Paired(msgs) ==
    \A k \in 1 .. Len(msgs) :
        /\ msgs[k].role = "assistant" =>
               k < Len(msgs) /\ msgs[k + 1].role = "function"
                             /\ msgs[k + 1].name = msgs[k].name
        /\ msgs[k].role = "function" => k > 1 /\ msgs[k - 1].role = "assistant"

\* the handling of a tool-call response of request i fails in this step
ToolCallFails(i) ==
    /\ caught'[i] # caught[i]
    /\ caught'[i].origin \in {"arguments", "await", "capability"}

\* C24: when the handling of a tool-call response fails, in the decoding of
\* the arguments or in the capability, the conversation of the request stays
\* as it was sent; when it succeeds the tool-call message and the
\* function-role message are appended in one step, so no conversation ever
\* holds one of the two without the other.
C24_ToolCallFrame ==
    /\ [](\A i \in Requests :
            /\ Paired(messages[i])
            /\ dispatches[i] > 0 => Paired(sent[i].messages))
    /\ [][\A i \in Requests :
            /\ ToolCallFails(i) =>
                   messages'[i] = messages[i] /\ messages'[i] = sent[i].messages
            /\ (messages[i] # <<>> /\ messages'[i] # messages[i]) =>
                   /\ pc[i] = "calling"
                   /\ Len(messages'[i]) = Len(messages[i]) + 2
                   /\ SubSeq(messages'[i], 1, Len(messages[i])) = messages[i]
                   /\ messages'[i][Len(messages[i]) + 1] = pending[i]
                   /\ messages'[i][Len(messages[i]) + 2].role = "function"]_vars

\* a request whose capability failed and which now sleeps before its retry:
\* its conversation is still the one it sent
C24_Witness ==
    \E i \in Requests :
        /\ caught[i] = Caught(APIError, "capability")
        /\ pc[i] = "sleeping"
        /\ toolcalls[i] = 1
        /\ invocations[i] = 1
        /\ Len(messages[i]) = 2
        /\ messages[i] = sent[i].messages

-----------------------------------------------------------------------------
(* Progress of a batch *)

\* the batch arun has returned a list with every one of its n elements settled
BatchSettled ==
    /\ batch.state = "returned"
    /\ Len(batch.value) = n
    /\ \A k \in 1 .. n : batch.value[k].kind \in Terminal

\* every capability invocation of request i completes
CapabilityCompletes(i) == []<>(pc[i] # "calling")

\* C25 as stated: under fair scheduling, with every endpoint call answered
\* and finitely many transient errors and tool-call responses, a batch arun
\* of any size eventually returns with all its elements settled.
C25_BatchEventuallySettles == <>BatchSettled

\* C25, amended: the same, provided that every capability invocation
\* completes; a capability that never returns keeps its request, and the
\* permit the request holds, for ever.
C25_BatchSettlesIfCapabilitiesComplete ==
    (\A i \in Requests : CapabilityCompletes(i)) => <>BatchSettled

\* a batch larger than the number of permits has returned, all of it
\* answered, after a tool round trip and a backoff
C25_Witness ==
    /\ BatchSettled
    /\ n > LiveLimit
    /\ \A k \in 1 .. n : batch.value[k].kind = "returned"
    /\ \E i \in BatchRequests : invocations[i] > 0
    /\ \E i \in BatchRequests : backoffs[i] > 0

====
